---- MODULE Spec2Model ----
(***************************************************************************)
(* A model of the graph execution engine of univerejs                      *)
(* (src/src/base/graph.ts) and of the composite architectures that build a *)
(* Graph and delegate to it (Pipe, Vote).                                  *)
(*                                                                         *)
(* Nodes are the string sentinels, other strings, and worker instances.    *)
(* A worker instance is identified by its name here; "A1" and "A1b" are    *)
(* two distinct Agent instances built from the same configuration.         *)
(***************************************************************************)
EXTENDS Integers, Sequences, FiniteSets, TLC

\* ------------------------------------------------------------------ bounds
\* graph.ts sets MAX_NODES = 1000, MAX_EDGES_PER_NODE = 100 and
\* MAX_INVOCATIONS = 1000.  The model keeps the code's comparisons and the
\* relation MAX_NODES = MAX_INVOCATIONS and scales the three numbers down.
MAX_NODES == 4
MAX_EDGES_PER_NODE == 2
MAX_INVOCATIONS == 4
\* the largest `retries` an Agent is configured with
MaxRetries == 2
\* Longest worker list given to Pipe, longest worker list given to Vote and
\* the number of construction calls of a free build.
MaxPipe == 3
MaxVote == 2
MaxCalls == 3
\* Concurrent callers of invoke on one Graph and the longest traversal (in
\* worker invocations and edge function calls) of a call in that setting.
MaxCallers == 3
MaxSteps == 2
\* failures of the logger in one traversal
MaxLogFailures == 1

\* ------------------------------------------------------------------ values
Null == "null"                       \* null / undefined
Absent == "absent"                   \* a key that an object does not hold
Agents == {"A1", "A1b", "A2", "A3"}  \* instances of class Agent
Composites == {"P1", "V1"}           \* a Pipe and a Vote instance used as workers
Strings == {"START", "END", "B", "C"}
Workers == Agents \cup Composites
Nodes == Workers \cup Strings

\* typeof node === "string"
IsString(n) == n \in Strings
\* node instanceof Agent
IsAgent(n) == n \in Agents

\* What JSON.stringify writes for one member of a target list: a string is
\* written as the string, an Agent as its own enumerable fields.  A1 and A1b
\* hold the same field values, every other agent differs in its name.
AgentFields(a) == IF a \in {"A1", "A1b"} THEN "cfg1" ELSE a
JSONstringify(list) ==
    [i \in DOMAIN list |->
        IF IsString(list[i]) THEN <<"str", list[i]>>
        ELSE <<"obj", AgentFields(list[i])>>]

\* The three edge kinds as one record shape.
DirectEdge(to) == [type |-> "direct", to |-> to, fn |-> Null, tos |-> <<>>, next |-> Null]
ConditionalEdge(fn) == [type |-> "conditional", to |-> Null, fn |-> fn, tos |-> <<>>, next |-> Null]
ParallelEdge(tos, next) == [type |-> "parallel", to |-> Null, fn |-> Null, tos |-> tos, next |-> next]

\* Conditional edge functions, by reference.  "notfn" is a value that is not a
\* function.
\* The function a Team registers on its supervisor closes over the team's
\* worker list: one function value per list.
TeamLists == [fTeam1 |-> <<"A1">>, fTeam2 |-> <<"A1b", "A1">>, fTeam3 |-> <<>>]
TeamFns == DOMAIN TeamLists
Fns == {"fRoute", "fA1b", "fStart"} \cup TeamFns
NotFn == "notfn"

\* The caller's state: an object with the keys seen and route.
Routes == {"A1", "B", "END"}
States == [seen : {Absent, "false", "true"}, route : {Absent} \cup Routes]
\* null where a state is expected
NullState == [seen |-> Null, route |-> Null]
\* a value that is not an object where a state is expected (a number)
NumberState == [seen |-> "number", route |-> "number"]
\* a value that is not a string where a task is expected (a number)
NumberTask == "<number>"

\* fRoute maps the state's route field to the node of that name (undefined
\* when the field is missing); fA1b always routes to the agent A1b, fStart
\* always to START.
\* worker.name: A1b holds the same field values as A1, its name included
NameOf(w) == IF w = "A1b" THEN "A1" ELSE w
\* router.done and router.next as the state's route field holds them: the
\* route END stands for a router with done set, every other route for
\* router.next (undefined when the field is missing)
RouterDone(st) == st.route = "END"
RouterNext(st) == st.route
\* (mutant) the first worker of the list, whatever its name
RECURSIVE find_first(_, _)
find_first(workers, nextKey) == IF workers = <<>> THEN Null ELSE Head(workers)

\* this.workers.find(worker => worker.name === nextKey)
RECURSIVE find(_, _)
find(workers, nextKey) ==
    IF workers = <<>> THEN Null
    ELSE IF NameOf(Head(workers)) = nextKey THEN Head(workers)
    ELSE find(Tail(workers), nextKey)
\* the conditional edge function of Team.invoke
TeamRoute(workers, st) ==
    IF RouterDone(st) THEN "END"
    ELSE LET foundAgent == find(workers, RouterNext(st)) IN
         IF foundAgent = Null THEN "END" ELSE foundAgent

FnApply(fn, st) ==
    IF fn = "fRoute" THEN (IF st.route = Absent THEN Null ELSE st.route)
    ELSE IF fn \in TeamFns THEN TeamRoute(TeamLists[fn], st)
    ELSE IF fn = "fStart" THEN "START"
    ELSE "A1b"

\* ------------------------------------------------------- construction (pure)
EmptyMap == [n \in {} |-> <<>>]
Put(E, k, v) == [n \in (DOMAIN E) \cup {k} |-> IF n = k THEN v ELSE E[n]]
Ok(E) == [edges |-> E, err |-> "none"]
Thrown(E, e) == [edges |-> E, err |-> e]

validateNode(node) == node # Null

\* (mutant) every node exists
nodeExists_any(E, node) == TRUE

nodeExists(E, node) ==
    IF IsString(node) THEN (node \in DOMAIN E) \/ node = "END"
    ELSE TRUE

ensureMaxNodes(E) == Cardinality(DOMAIN E) < MAX_NODES

getOrCreateEdges(E, fromNode) ==
    IF fromNode \in DOMAIN E THEN Ok(E)
    ELSE IF ~ensureMaxNodes(E) THEN Thrown(E, "max_nodes")
    ELSE Ok(Put(E, fromNode, <<>>))

ensureMaxEdges(E, fromNode) ==
    LET g == getOrCreateEdges(E, fromNode) IN
    IF g.err # "none" THEN g
    ELSE IF Len(g.edges[fromNode]) >= MAX_EDGES_PER_NODE THEN Thrown(g.edges, "max_edges")
    ELSE g

areEdgesEqual(e1, e2) ==
    IF e1.type # e2.type THEN FALSE
    ELSE IF e1.type = "direct" THEN e1.to = e2.to
    ELSE IF e1.type = "conditional" THEN e1.fn = e2.fn
    ELSE JSONstringify(e1.tos) = JSONstringify(e2.tos) /\ e1.next = e2.next

\* (mutant) no edge is ever found on the node
hasEdge_never(E, fromNode, newEdge) == FALSE

\* hasEdge, after its getOrCreateEdges has succeeded
hasEdge(E, fromNode, newEdge) ==
    \E i \in DOMAIN E[fromNode] : areEdgesEqual(E[fromNode][i], newEdge)

pushEdge(E, fromNode, newEdge) ==
    LET g == getOrCreateEdges(E, fromNode) IN
    IF g.err # "none" THEN g
    ELSE Ok([g.edges EXCEPT ![fromNode] = Append(@, newEdge)])

checkDuplicateAndPush(E, fromNode, newEdge) ==
    LET g == getOrCreateEdges(E, fromNode) IN
    IF g.err # "none" THEN g
    ELSE IF hasEdge(g.edges, fromNode, newEdge) THEN Thrown(g.edges, "duplicate")
    ELSE pushEdge(g.edges, fromNode, newEdge)

addEdge(E, from, to) ==
    IF ~validateNode(from) \/ ~validateNode(to) THEN Thrown(E, "null_node")
    ELSE IF ~ensureMaxNodes(E) THEN Thrown(E, "max_nodes")
    ELSE LET m == ensureMaxEdges(E, from) IN
         IF m.err # "none" THEN m
         ELSE checkDuplicateAndPush(m.edges, from, DirectEdge(to))

validateFunction(fn) == fn \in Fns

\* (mutant) the source's list is fetched, and created, before the function is
\* looked at
addConditionalEdge_createfirst(E, from, fn) ==
    IF ~validateNode(from) THEN Thrown(E, "null_node")
    ELSE LET g == getOrCreateEdges(E, from) IN
         IF g.err # "none" THEN g
         ELSE IF ~validateFunction(fn) THEN Thrown(g.edges, "bad_fn")
         ELSE checkDuplicateAndPush(g.edges, from, ConditionalEdge(fn))

addConditionalEdge(E, from, fn) ==
    IF ~validateNode(from) THEN Thrown(E, "null_node")
    ELSE IF ~validateFunction(fn) THEN Thrown(E, "bad_fn")
    ELSE checkDuplicateAndPush(E, from, ConditionalEdge(fn))

\* A targets argument: an array of items, or a value that is no array.
Arr(items) == [isArray |-> TRUE, items |-> items]
NotArray == [isArray |-> FALSE, items |-> <<>>]
validateParallelTargets(targets) ==
    /\ targets.isArray
    /\ \A i \in DOMAIN targets.items :
          IsString(targets.items[i]) \/ IsAgent(targets.items[i])

\* (mutant) a string that is not END is rejected as a next node
validateNextNode_strict(next) == next = Null \/ next = "END" \/ IsAgent(next)

\* the throwing half of validateNextNode; its second half only warns
validateNextNode(next) ==
    next = Null \/ IsString(next) \/ IsAgent(next)

addParallelEdges(E, from, targets, next) ==
    IF ~validateNode(from) THEN Thrown(E, "null_node")
    ELSE IF ~validateParallelTargets(targets) THEN Thrown(E, "bad_targets")
    ELSE IF ~validateNextNode(next) THEN Thrown(E, "bad_next")
    ELSE LET m == ensureMaxEdges(E, from) IN
         IF m.err # "none" THEN m
         ELSE checkDuplicateAndPush(m.edges, from, ParallelEdge(targets.items, next))

\* ------------------------------------------------------ construction calls
CallAddEdge(from, to) ==
    [op |-> "addEdge", from |-> from, to |-> to, fn |-> Null, tos |-> Arr(<<>>), next |-> Null]
CallAddConditionalEdge(from, fn) ==
    [op |-> "addConditionalEdge", from |-> from, to |-> Null, fn |-> fn, tos |-> Arr(<<>>), next |-> Null]
CallAddParallelEdges(from, tos, next) ==
    [op |-> "addParallelEdges", from |-> from, to |-> Null, fn |-> Null, tos |-> tos, next |-> next]

\* ------------------------------------------------------------ edge selection
Target(v) == [err |-> "none", isArray |-> FALSE, node |-> v, nodes |-> <<>>]
Targets(l) == [err |-> "none", isArray |-> TRUE, node |-> Null, nodes |-> l]
PickThrown(e) == [err |-> e, isArray |-> FALSE, node |-> Null, nodes |-> <<>>]

\* (mutant) the edge function called without the traversal's state
getNextNodeFromEdge_nostate(edge, st) ==
    IF edge.type = "direct" THEN Target(edge.to)
    ELSE IF edge.type = "conditional" THEN
        LET result == FnApply(edge.fn, [seen |-> Absent, route |-> Absent]) IN
        IF ~validateNode(result) THEN PickThrown("pick_error") ELSE Target(result)
    ELSE Targets(edge.tos)

\* A conditional edge validates what its function returned: null or undefined
\* makes validateNode throw.
getNextNodeFromEdge(edge, st) ==
    IF edge.type = "direct" THEN Target(edge.to)
    ELSE IF edge.type = "conditional" THEN
        LET result == FnApply(edge.fn, st) IN
        IF ~validateNode(result) THEN PickThrown("pick_error") ELSE Target(result)
    ELSE Targets(edge.tos)

RECURSIVE pickNextNode(_, _)
pickNextNode(edgeList, st) ==
    IF edgeList = <<>> THEN Target(Null)
    ELSE LET next == getNextNodeFromEdge(Head(edgeList), st) IN
         IF next.err # "none" THEN next
         ELSE IF next.isArray \/ next.node # Null THEN next
         ELSE pickNextNode(Tail(edgeList), st)

\* The iterations of pickNextNode's for loop: the calls of getNextNodeFromEdge
\* it makes, in order, from edge i on.  The loop ends with the first call
\* that yields a target or throws.
RECURSIVE pickSteps(_, _, _)
pickSteps(edgeList, i, st) ==
    IF i > Len(edgeList) THEN <<>>
    ELSE LET next == getNextNodeFromEdge(edgeList[i], st)
             yields == next.err = "none" /\ (next.isArray \/ next.node # Null) IN
         <<[edge |-> i, type |-> edgeList[i].type, fn |-> edgeList[i].fn,
            state |-> st, yields |-> yields, threw |-> next.err # "none"]>>
         \o (IF yields \/ next.err # "none" THEN <<>>
             ELSE pickSteps(edgeList, i + 1, st))

validateNextNodePresence(E, next) ==
    IF next.isArray THEN \A i \in DOMAIN next.nodes : nodeExists(E, next.nodes[i])
    ELSE nodeExists(E, next.node)

\* edgeList.find(e => e.type === "parallel"): the position of the first
\* parallel edge of the list, 0 when there is none
RECURSIVE findParallel(_, _)
findParallel(edgeList, i) ==
    IF i > Len(edgeList) THEN 0
    ELSE IF edgeList[i].type = "parallel" THEN i
    ELSE findParallel(edgeList, i + 1)

\* (mutant) the ceiling tested one iteration late
ensureMaxInvocations_late(count, max) == count <= max + 1

ensureMaxInvocations(count, max) == count <= max

validateInvocationInputs(E, st, tk, startNode) ==
    IF st \notin States THEN "bad_state"
    ELSE IF tk = "" \/ tk = NumberTask THEN "bad_task"
    ELSE IF startNode = Null THEN "bad_start"
    ELSE IF ~nodeExists(E, startNode) THEN "unknown_start"
    ELSE "none"

\* ------------------------------------------------------------------ workers
\* What a worker's invoke may answer when called with state st.  A1 returns a
\* copy of the state with seen set, A1b and the composites return the state
\* as it is, A2 returns a new object that holds only a route, A3 returns a
\* result without state and without history, or throws, or answers in a
\* wrong shape.
Result(hasState, st, hasHistory, h) ==
    [kind |-> "ok", isObject |-> TRUE,
     hasState |-> hasState, stateIsObject |-> TRUE, state |-> st,
     hasHistory |-> hasHistory, historyIsArray |-> TRUE, history |-> h]
Throws(st) == [Result(FALSE, st, FALSE, <<>>) EXCEPT !.kind = "throw"]
NoResult == [Result(FALSE, NullState, FALSE, <<>>) EXCEPT !.kind = "none"]
\* answers of the wrong shape: no object at all, a `state` that is no object,
\* a `history` that is no array
NotAnObject(st) == [Result(FALSE, st, FALSE, <<>>) EXCEPT !.isObject = FALSE]
StateNotObject(st) ==
    [Result(TRUE, NumberState, FALSE, <<>>) EXCEPT !.stateIsObject = FALSE]
HistoryNotArray(st) ==
    [Result(TRUE, [st EXCEPT !.seen = "true"], TRUE, <<>>) EXCEPT !.historyIsArray = FALSE]

WorkerOutcomes(w, st) ==
    IF w = "A1" THEN {Result(TRUE, [st EXCEPT !.seen = "true"], TRUE, <<"A1">>)}
    ELSE IF w = "A2" THEN
        {Result(TRUE, [seen |-> Absent, route |-> r], TRUE, <<"A2", "A2">>) : r \in Routes}
    ELSE IF w = "A3" THEN
        {Result(FALSE, st, FALSE, <<>>), Throws(st), NotAnObject(st),
         StateNotObject(st), HistoryNotArray(st)}
    ELSE {Result(TRUE, st, TRUE, <<w>>)}

\* (mutant) every answer passes
validateAgentResult_lax(result) == TRUE

validateAgentResult(result) ==
    /\ result.isObject
    /\ result.hasState => result.stateIsObject
    /\ result.hasHistory => result.historyIsArray

\* runAgent: the worker's answer, validated; an answer of the wrong shape is
\* an error like an exception of the worker
runAgent(agent, st) ==
    {IF r.kind = "ok" /\ ~validateAgentResult(r) THEN [r EXCEPT !.kind = "throw"] ELSE r :
        r \in WorkerOutcomes(agent, st)}

\* (mutant) the returned state merged into the current one field by field
adoptState_merge(cur, r) ==
    IF r.hasState THEN
        [seen |-> IF r.state.seen = Absent THEN cur.seen ELSE r.state.seen,
         route |-> IF r.state.route = Absent THEN cur.route ELSE r.state.route]
    ELSE cur

\* `newState || i.state` and `if (history?.length) push(...history)`
adoptState(cur, r) == IF r.hasState THEN r.state ELSE cur

\* (mutant) a message the log already holds is not appended again
appendHistory_dedup(hist, r) ==
    IF r.hasHistory
    THEN hist \o SelectSeq(r.history, LAMBDA m : \A j \in DOMAIN hist : hist[j] # m)
    ELSE hist

appendHistory(hist, r) == IF r.hasHistory THEN hist \o r.history ELSE hist

\* ----------------------------------------------------------------- programs
\* A program is one use of the library: Pipe.invoke or Vote.invoke on a
\* worker list, or a caller that assembles a Graph itself and invokes it.
InjSeqs(S, n) ==
    {s \in UNION {[1..k -> S] : k \in 0..n} :
        \A i, j \in DOMAIN s : i # j => s[i] # s[j]}

PipeScript(ws) ==
    [i \in 1..(Len(ws) + 1) |->
        CallAddEdge(IF i = 1 THEN "START" ELSE ws[i - 1],
                    IF i = Len(ws) + 1 THEN "END" ELSE ws[i])]

\* Team.invoke: START -> supervisor, the routing function on the supervisor,
\* and an edge from every worker back to the supervisor
TeamScript(supervisor, fn) ==
    <<CallAddEdge("START", supervisor), CallAddConditionalEdge(supervisor, fn)>>
    \o [i \in DOMAIN TeamLists[fn] |-> CallAddEdge(TeamLists[fn][i], supervisor)]

VoteScript(ws, synth) ==
    <<CallAddParallelEdges("START", Arr(ws), synth), CallAddEdge(synth, "END")>>

\* the nodes of a long chain
Chain == <<"START", "A1", "A2", "A3", "A1b", "P1", "V1">>

GraphScripts ==
    << \* 1: START -> A1 -> END
       <<CallAddEdge("START", "A1"), CallAddEdge("A1", "END")>>,
       \* 2: a hub: START -> A2, A2 routes on state.route, A1 -> A2
       <<CallAddEdge("START", "A2"), CallAddConditionalEdge("A2", "fRoute"),
         CallAddEdge("A1", "A2")>>,
       \* 3: a conditional edge that always routes back to its source
       <<CallAddEdge("START", "A1b"), CallAddConditionalEdge("A1b", "fA1b")>>,
       \* 4: a direct self-loop on START
       <<CallAddEdge("START", "START")>>,
       \* 5: a dead end: A1 is only a target
       <<CallAddEdge("START", "A1")>>,
       \* 6: routing on the caller's state from START
       <<CallAddConditionalEdge("START", "fRoute"), CallAddEdge("A1", "END")>>,
       \* 7: a fan-out with a string member that is no source, no next
       <<CallAddParallelEdges("START", Arr(<<"A1", "B">>), Null)>>,
       \* 8: a fan-out whose next node routes on the state
       <<CallAddParallelEdges("START", Arr(<<"A1", "A2">>), "A1b"),
         CallAddConditionalEdge("A1b", "fRoute")>>,
       \* 9: a fan-out after a worker, with a registered string member, next
       \*    is a dead end
       <<CallAddEdge("START", "A2"), CallAddEdge("C", "END"),
         CallAddParallelEdges("A2", Arr(<<"C", "A1", "A3">>), "A1b")>>,
       \* 10: the same direct edge added twice
       <<CallAddEdge("START", "A1"), CallAddEdge("START", "A1")>>,
       \* 11: a direct edge to a string that is no source
       <<CallAddEdge("START", "B")>>,
       \* 12: no edge from START; A1 always routes to START
       <<CallAddConditionalEdge("A1", "fStart")>>,
       \* 13: a chain with as many sources as the map may hold, then one
       \*     more direct edge from START
       [i \in 1..MAX_NODES |-> CallAddEdge(Chain[i], Chain[i + 1])]
          \o <<CallAddEdge("START", "END")>>,
       \* 14: a node with a conditional, a direct and a conditional edge
       <<CallAddConditionalEdge("START", "fRoute"), CallAddEdge("START", "A1"),
         CallAddConditionalEdge("START", "fStart"), CallAddEdge("A1", "END")>>,
       \* 15: a node with a parallel, a direct and a conditional edge
       <<CallAddParallelEdges("START", Arr(<<"A1">>), Null), CallAddEdge("START", "A1b"),
         CallAddConditionalEdge("START", "fA1b")>>,
       \* 16: a fan-out whose next is a string registered afterwards
       <<CallAddParallelEdges("START", Arr(<<"A1", "A3">>), "B"), CallAddEdge("B", "END")>>,
       \* 17: a fan-out whose next is a string that is never registered
       <<CallAddParallelEdges("START", Arr(<<"A1", "A3">>), "C")>>
    >>

\* worker lists that hold the same worker instance at two positions
RepeatedLists == {<<w, w>> : w \in {"A1", "A1b"}}

\* worker lists that hold a composite worker (a Pipe instance)
CompositeLists == {<<"P1">>, <<"A1", "P1">>}

\* the teams: a supervisor that rewrites the router (A2) over each worker
\* list, and one that leaves the caller's router as it is (A1b)
Teams == {[supervisor |-> "A2", fn |-> f] : f \in TeamFns}
         \cup {[supervisor |-> "A1b", fn |-> "fTeam1"]}

Programs ==
    {[kind |-> "pipe", workers |-> ws, synth |-> Null, supervisor |-> Null, fn |-> Null, id |-> 0] :
        ws \in InjSeqs(Workers, MaxPipe) \cup RepeatedLists}
    \cup {[kind |-> "vote", workers |-> ws, synth |-> a, supervisor |-> Null, fn |-> Null, id |-> 0] :
            ws \in (InjSeqs(Agents, MaxVote) \ {<<>>}) \cup CompositeLists, a \in Agents}
    \cup {[kind |-> "graph", workers |-> <<>>, synth |-> Null, supervisor |-> Null, fn |-> Null, id |-> i] :
            i \in DOMAIN GraphScripts}
    \cup {[kind |-> "team", workers |-> TeamLists[t.fn], synth |-> Null,
            supervisor |-> t.supervisor, fn |-> t.fn, id |-> 0] : t \in Teams}

ScriptOf(p) ==
    IF p.kind = "pipe" THEN PipeScript(p.workers)
    ELSE IF p.kind = "vote" THEN VoteScript(p.workers, p.synth)
    ELSE IF p.kind = "team" THEN TeamScript(p.supervisor, p.fn)
    ELSE GraphScripts[p.id]

FreeProgram == [kind |-> "free", workers |-> <<>>, synth |-> Null, supervisor |-> Null, fn |-> Null, id |-> 0]

\* What the caller hands to invoke.
InputStates == {[seen |-> "false", route |-> r] : r \in {Absent} \cup Routes}
InputTasks == {"t", "", NumberTask}
\* startNode: left out (Absent), null, or a node
StartNodes(p) ==
    IF p.kind = "graph" THEN {Absent, Null, "END", "B", "A1", "A2"} ELSE {"START"}

Callers == 1..MaxCallers

VARIABLES
    prog,             \* the program that runs
    script,           \* construction calls the program has still to make
    edges,            \* Graph.edges: source node -> list of edges
    call,             \* the last construction call, how it ended, the map before it
    ncalls,           \* construction calls of a free build made so far
    input,            \* what the caller handed to invoke
    pc,               \* build | loop | await | par | done | failed
    err,              \* the error invoke (or the construction) ended with
    istate,           \* i.state
    currentNode,
    combinedHistory,
    invocationCount,
    visitedNodes,
    par,              \* the fan-out in progress, or the last one
    path,             \* the nodes the loop has processed, in order
    started,          \* worker invocations begun, in order
    finished,         \* worker invocations resolved, in order
    edgeCalls,        \* the visits that looked for a next node: the node, the
                      \*   calls of getNextNodeFromEdge made, in order, and
                      \*   what the visit ended with
    mutexValue,       \* invocationMutex: 1 when free, 0 when held
    mutexQueue,       \* invocationMutex: the calls waiting for it, in order
    callpc,           \* each concurrent invoke call: idle | waiting | running |
                      \*   returned | thrown
    callSteps,        \* each call: workers invoked and edge functions called
    calledBy,         \* each call: the call whose worker made it, 0 when it
                      \*   was made from outside the graph
    previous,         \* what the instance's earlier invoke call was given and
                      \*   how it ended, once the caller has called again
    traversalLog,     \* whose traversal step it was, in the order of the steps
    agent             \* an Agent: its configuration and where its invoke is

graphVars == <<prog, script, edges, call, ncalls, input, pc, err, istate,
               currentNode, combinedHistory, invocationCount, visitedNodes, par,
               path, started, finished, edgeCalls>>
mutexVars == <<mutexValue, mutexQueue, callpc, callSteps, traversalLog, previous,
               calledBy>>
agentVars == <<agent>>
vars == <<graphVars, mutexVars, agentVars>>

buildVars == <<prog, script, edges, call, ncalls>>
runVars == <<istate, currentNode, combinedHistory, invocationCount,
             visitedNodes, par, path, started, finished, edgeCalls>>

NoCall == [op |-> "none", from |-> Null, to |-> Null, fn |-> Null, tos |-> Arr(<<>>),
           next |-> Null, err |-> "none", before |-> EmptyMap]

Record(c, r) ==
    [op |-> c.op, from |-> c.from, to |-> c.to, fn |-> c.fn, tos |-> c.tos,
     next |-> c.next, err |-> r.err, before |-> edges]

NoPar == [from |-> Null, tos |-> <<>>, status |-> <<>>, results |-> <<>>,
          order |-> <<>>, stateIn |-> NullState, local |-> NullState,
          joined |-> FALSE, at |-> 0]
NoInput == [state |-> NullState, task |-> "", startNode |-> Null]
\* no Agent has been constructed
NoAgent == [pc |-> "new", retries |-> 0, evaluations |-> FALSE, manipulations |-> FALSE,
            injections |-> FALSE, retry |-> 0, results |-> <<>>, passed |-> <<>>,
            manipulated |-> FALSE, err |-> "none"]

NoPrevious == [called |-> FALSE, input |-> NoInput, pc |-> "build", err |-> "none",
               state |-> NullState, history |-> <<>>, path |-> <<>>,
               finished |-> <<>>, count |-> 0]

InitRun ==
    /\ edges = EmptyMap
    /\ call = NoCall
    /\ ncalls = 0
    /\ input = NoInput
    /\ pc = "build"
    /\ err = "none"
    /\ istate = NullState
    /\ currentNode = Null
    /\ combinedHistory = <<>>
    /\ invocationCount = 0
    /\ visitedNodes = {}
    /\ par = NoPar
    /\ path = <<>>
    /\ started = <<>>
    /\ finished = <<>>
    /\ edgeCalls = <<>>
    /\ mutexValue = 1
    /\ mutexQueue = <<>>
    /\ callpc = [c \in Callers |-> "idle"]
    /\ callSteps = [c \in Callers |-> 0]
    /\ calledBy = [c \in Callers |-> 0]
    /\ traversalLog = <<>>
    /\ previous = NoPrevious
    /\ agent = NoAgent

Init ==
    /\ prog \in Programs
    /\ script = ScriptOf(prog)
    /\ InitRun

InitBuild ==
    /\ prog = FreeProgram
    /\ script = <<>>
    /\ InitRun

\* -------------------------------------------------- construction (actions)
DoCall(c) ==
    LET r == IF c.op = "addEdge" THEN addEdge(edges, c.from, c.to)
             ELSE IF c.op = "addConditionalEdge" THEN addConditionalEdge(edges, c.from, c.fn)
             ELSE addParallelEdges(edges, c.from, c.tos, c.next) IN
    /\ edges' = r.edges
    /\ call' = Record(c, r)

\* A call of the running program: an exception thrown by the call ends the
\* program (Pipe.invoke and Vote.invoke do not catch it).
ScriptCall ==
    /\ DoCall(Head(script))
    /\ script' = Tail(script)
    /\ pc' = IF call'.err = "none" THEN "build" ELSE "failed"
    /\ err' = call'.err
    /\ UNCHANGED <<prog, ncalls, input>>
    /\ UNCHANGED runVars
    /\ UNCHANGED <<mutexVars, agentVars>>

AddEdge ==
    /\ pc = "build"
    /\ script # <<>>
    /\ Head(script).op = "addEdge"
    /\ ScriptCall

AddConditionalEdge ==
    /\ pc = "build"
    /\ script # <<>>
    /\ Head(script).op = "addConditionalEdge"
    /\ ScriptCall

AddParallelEdges ==
    /\ pc = "build"
    /\ script # <<>>
    /\ Head(script).op = "addParallelEdges"
    /\ ScriptCall

\* A free build: any caller, any calls, the caller catches what is thrown.
FreeFrom == {"START", "A1"}
FreeTo == {"A1", "A1b", Null}
FreeFn == {"fRoute", "fA1b", NotFn}
FreeTargets == {Arr(<<"A1", "A2">>), Arr(<<"A2", "A1">>), Arr(<<"A1", "A1b">>),
                Arr(<<"A1b", "A1">>), Arr(<<>>), Arr(<<"P1", "END">>), Arr(<<Null>>),
                NotArray}
FreeNext == {Null, "A3"}

FreeCall(c) ==
    /\ DoCall(c)
    /\ ncalls' = ncalls + 1
    /\ UNCHANGED <<prog, script, input, pc, err>>
    /\ UNCHANGED runVars
    /\ UNCHANGED <<mutexVars, agentVars>>

FreeBuild ==
    /\ pc = "build"
    /\ prog.kind = "free"
    /\ ncalls < MaxCalls

FreeAddEdge ==
    /\ FreeBuild
    /\ \E from \in FreeFrom, to \in FreeTo : FreeCall(CallAddEdge(from, to))

FreeAddConditionalEdge ==
    /\ FreeBuild
    /\ \E from \in FreeFrom, fn \in FreeFn : FreeCall(CallAddConditionalEdge(from, fn))

FreeAddParallelEdges ==
    /\ FreeBuild
    /\ \E from \in FreeFrom, tos \in FreeTargets, next \in FreeNext :
          FreeCall(CallAddParallelEdges(from, tos, next))

\* ------------------------------------------------------------------- invoke
\* The rest of a loop iteration once the node's worker (if any) has answered:
\* lines 298-325 of Graph.invoke.
followEdges(E, node, st, edgeList) ==
         LET nextNode == pickNextNode(edgeList, st)
             calls == pickSteps(edgeList, 1, st) IN
         IF nextNode.err # "none" THEN
            [kind |-> "failed", err |-> nextNode.err, node |-> node, nodes |-> <<>>,
             calls |-> calls, warned |-> FALSE]
         ELSE IF ~nextNode.isArray /\ nextNode.node = Null THEN
            [kind |-> "goto", err |-> "none", node |-> "END", nodes |-> <<>>,
             calls |-> calls, warned |-> FALSE]
         ELSE IF ~validateNextNodePresence(E, nextNode) THEN
            [kind |-> "failed", err |-> "unknown_node", node |-> node, nodes |-> <<>>,
             calls |-> calls, warned |-> FALSE]
         ELSE IF nextNode.isArray THEN
            [kind |-> "fanout", err |-> "none", node |-> node, nodes |-> nextNode.nodes,
             calls |-> calls, warned |-> FALSE]
         ELSE [kind |-> "goto", err |-> "none", node |-> nextNode.node, nodes |-> <<>>,
               calls |-> calls, warned |-> FALSE]

\* (mutant) a node without edges is an error
advance_strict(E, node, st) ==
    LET edgeList == IF node \in DOMAIN E THEN E[node] ELSE <<>> IN
    IF Len(edgeList) = 0
    THEN [kind |-> "failed", err |-> "unknown_node", node |-> node, nodes |-> <<>>,
          calls |-> <<>>, warned |-> FALSE]
    ELSE followEdges(E, node, st, edgeList)

advance(E, node, st) ==
    LET edgeList == IF node \in DOMAIN E THEN E[node] ELSE <<>> IN
    IF Len(edgeList) = 0 THEN [kind |-> "done", err |-> "none", node |-> node, nodes |-> <<>>,
                               calls |-> <<>>, warned |-> FALSE]
    ELSE followEdges(E, node, st, edgeList)

\* logEdgeTraversal runs once pickNextNode has returned.
Logged(a) == a.kind # "done" /\ a.err # "pick_error"

\* (mutant) a failure of the logger is thrown on
logEdgeTraversal_rethrow(a, loggerThrows) ==
    IF Logged(a) /\ loggerThrows
    THEN [a EXCEPT !.kind = "failed", !.err = "log_error", !.warned = TRUE]
    ELSE a

\* logEdgeTraversal: what logger.edge throws is caught and written as a
\* warning; the step goes on as it would have
logEdgeTraversal(a, loggerThrows) ==
    IF Logged(a) /\ loggerThrows THEN [a EXCEPT !.warned = TRUE] ELSE a

Invocation(w, st, inPar) == [node |-> w, state |-> st, par |-> inPar]
Resolution(w, r, inPar) == [node |-> w, result |-> r, par |-> inPar]

\* (mutant) the members are invoked from the last to the first
RECURSIVE branchInvocations_reversed(_, _)
branchInvocations_reversed(tos, st) ==
    IF tos = <<>> THEN <<>>
    ELSE branchInvocations_reversed(Tail(tos), st)
         \o (IF IsString(Head(tos)) THEN <<>> ELSE <<Invocation(Head(tos), st, TRUE)>>)

\* invokeParallelAgents: every member that is not a string is invoked, in the
\* order of the list, with the same state
RECURSIVE branchInvocations(_, _)
branchInvocations(tos, st) ==
    IF tos = <<>> THEN <<>>
    ELSE (IF IsString(Head(tos)) THEN <<>> ELSE <<Invocation(Head(tos), st, TRUE)>>)
         \o branchInvocations(Tail(tos), st)

\* results.forEach of handleParallelEdges: the value its local variable
\* `state` ends with; the variable is a parameter of handleParallelEdges and
\* is not read again
RECURSIVE handleParallelState(_, _, _)
handleParallelState(results, i, st) ==
    IF i > Len(results) THEN st
    ELSE handleParallelState(results, i + 1,
            IF results[i].kind = "ok" /\ results[i].hasState THEN results[i].state ELSE st)

\* Promise.all(...) resolves once every member promise has resolved (a string
\* member's promise resolves with null at once)
\* (mutant) a race: the join goes on once one branch has answered
anyResolved(status) == \E i \in DOMAIN status : status[i] \in {"ok", "skip"}

allResolved(status) == \A i \in DOMAIN status : status[i] \in {"ok", "skip"}

Apply(a, st, hist, plen) ==
    /\ istate' = st
    /\ combinedHistory' = hist
    /\ edgeCalls' = IF a.kind = "done" THEN edgeCalls
                    ELSE Append(edgeCalls, [node |-> currentNode, visit |-> plen,
                                            calls |-> a.calls, kind |-> a.kind,
                                            err |-> a.err, next |-> a.node,
                                            nexts |-> a.nodes, warned |-> a.warned])
    /\ IF a.kind = "done" THEN
          /\ pc' = "done"
          /\ UNCHANGED <<err, currentNode, par, started>>
       ELSE IF a.kind = "failed" THEN
          /\ pc' = "failed"
          /\ err' = a.err
          /\ UNCHANGED <<currentNode, par, started>>
       ELSE IF a.kind = "goto" THEN
          /\ pc' = "loop"
          /\ currentNode' = a.node
          /\ UNCHANGED <<err, par, started>>
       ELSE
          /\ pc' = "par"
          /\ par' = [from |-> a.node, tos |-> a.nodes,
                     status |-> [i \in DOMAIN a.nodes |->
                                   IF IsString(a.nodes[i]) THEN "skip" ELSE "run"],
                     results |-> [i \in DOMAIN a.nodes |-> NoResult],
                     order |-> <<>>, stateIn |-> st, local |-> NullState,
                     joined |-> FALSE, at |-> plen]
          /\ started' = started \o branchInvocations(a.nodes, st)
          /\ UNCHANGED <<err, currentNode>>

Invoke ==
    /\ pc = "build"
    /\ script = <<>>
    /\ prog.kind # "free"
    /\ \E st \in InputStates \cup {NullState, NumberState}, tk \in InputTasks, sn \in StartNodes(prog) :
        LET startNode == IF sn \in {Null, Absent} THEN "START" ELSE sn
            v == validateInvocationInputs(edges, st, tk, startNode) IN
        /\ input' = [state |-> st, task |-> tk, startNode |-> sn]
        /\ IF v # "none" THEN
              /\ pc' = "failed"
              /\ err' = v
              /\ UNCHANGED runVars
           ELSE
              /\ pc' = "loop"
              /\ err' = "none"
              /\ istate' = st
              /\ currentNode' = startNode
              /\ combinedHistory' = <<>>
              /\ invocationCount' = 0
              /\ visitedNodes' = {}
              /\ UNCHANGED <<par, path, started, finished, edgeCalls>>
    /\ UNCHANGED buildVars
    /\ UNCHANGED <<mutexVars, agentVars>>

\* (mutant) the worker is invoked and not awaited: the loop goes on to the
\* node's first direct target at once
Iterate_noawait ==
    /\ pc = "loop"
    /\ invocationCount < MAX_INVOCATIONS
    /\ currentNode # "END"
    /\ invocationCount' = invocationCount + 1
    /\ visitedNodes' = visitedNodes \cup {currentNode}
    /\ path' = Append(path, currentNode)
    /\ started' = IF IsString(currentNode) THEN started
                  ELSE Append(started, Invocation(currentNode, istate, FALSE))
    /\ LET a == advance(edges, currentNode, istate) IN
          currentNode' = IF a.kind = "goto" THEN a.node ELSE "END"
    /\ UNCHANGED <<pc, err, istate, combinedHistory, par, edgeCalls, finished, input>>
    /\ UNCHANGED buildVars
    /\ UNCHANGED <<mutexVars, agentVars>>

\* (mutant) the counter of the earlier call is carried into the next
InvokeAgain_carry ==
    /\ pc \in {"done", "failed"}
    /\ err \notin {"null_node", "max_nodes", "max_edges", "duplicate", "bad_fn",
                   "bad_targets", "bad_next"}
    /\ ~previous.called
    /\ \A i \in DOMAIN par.status : par.status[i] # "run"
    /\ previous' = [called |-> TRUE, input |-> input, pc |-> pc, err |-> err,
                    state |-> istate, history |-> combinedHistory, path |-> path,
                    finished |-> finished, count |-> invocationCount]
    /\ pc' = "loop"
    /\ err' = "none"
    /\ istate' = input.state
    /\ currentNode' = IF input.startNode \in {Null, Absent} THEN "START"
                      ELSE input.startNode
    /\ combinedHistory' = <<>>
    /\ visitedNodes' = {}
    /\ par' = NoPar /\ path' = <<>> /\ started' = <<>> /\ finished' = <<>>
    /\ edgeCalls' = <<>>
    /\ UNCHANGED <<invocationCount, input>>
    /\ UNCHANGED buildVars
    /\ UNCHANGED <<mutexValue, mutexQueue, callpc, callSteps, traversalLog, calledBy>>
    /\ UNCHANGED agentVars

\* The caller calls invoke on the same Graph once more, with what it passed
\* before, when the earlier call has returned or thrown and every worker it
\* started has answered.  The locals of invoke are new in every call.
InvokeAgain ==
    /\ pc \in {"done", "failed"}
    /\ err \notin {"null_node", "max_nodes", "max_edges", "duplicate", "bad_fn",
                   "bad_targets", "bad_next"}
    /\ ~previous.called
    /\ \A i \in DOMAIN par.status : par.status[i] # "run"
    /\ previous' = [called |-> TRUE, input |-> input, pc |-> pc, err |-> err,
                    state |-> istate, history |-> combinedHistory, path |-> path,
                    finished |-> finished, count |-> invocationCount]
    /\ LET startNode == IF input.startNode \in {Null, Absent} THEN "START"
                        ELSE input.startNode
           v == validateInvocationInputs(edges, input.state, input.task, startNode) IN
       IF v # "none" THEN
          /\ pc' = "failed"
          /\ err' = v
          /\ UNCHANGED <<istate, currentNode, combinedHistory, invocationCount,
                         visitedNodes>>
       ELSE
          /\ pc' = "loop"
          /\ err' = "none"
          /\ istate' = input.state
          /\ currentNode' = startNode
          /\ combinedHistory' = <<>>
          /\ invocationCount' = 0
          /\ visitedNodes' = {}
    /\ par' = NoPar /\ path' = <<>> /\ started' = <<>> /\ finished' = <<>>
    /\ edgeCalls' = <<>>
    /\ UNCHANGED input
    /\ UNCHANGED buildVars
    /\ UNCHANGED <<mutexValue, mutexQueue, callpc, callSteps, traversalLog, calledBy>>
    /\ UNCHANGED agentVars

\* what the logger may do at this step: work, or throw
LoggerThrows ==
    IF Len(SelectSeq(edgeCalls, LAMBDA v : v.warned)) < MaxLogFailures
    THEN BOOLEAN ELSE {FALSE}

\* One pass through the head of the while loop, up to the worker's invocation
\* (a worker node) or to the next node (a string node).
Iterate ==
    /\ pc = "loop"
    /\ invocationCount' = invocationCount + 1
    /\ IF ~ensureMaxInvocations(invocationCount + 1, MAX_INVOCATIONS) THEN
          /\ pc' = "failed"
          /\ err' = "circular"
          /\ UNCHANGED <<istate, currentNode, combinedHistory, visitedNodes, par,
                         path, started, edgeCalls>>
       ELSE IF currentNode = "END" THEN
          /\ pc' = "done"
          /\ UNCHANGED <<err, istate, currentNode, combinedHistory, visitedNodes,
                         par, path, started, edgeCalls>>
       ELSE
          /\ visitedNodes' = visitedNodes \cup {currentNode}
          /\ path' = Append(path, currentNode)
          /\ IF ~IsString(currentNode) THEN
                /\ pc' = "await"
                /\ started' = Append(started, Invocation(currentNode, istate, FALSE))
                /\ UNCHANGED <<err, istate, currentNode, combinedHistory, par,
                               edgeCalls>>
             ELSE \E loggerThrows \in LoggerThrows :
                    Apply(logEdgeTraversal(advance(edges, currentNode, istate),
                                           loggerThrows),
                          istate, combinedHistory, Len(path) + 1)
    /\ UNCHANGED <<finished, input>>
    /\ UNCHANGED buildVars
    /\ UNCHANGED <<mutexVars, agentVars>>

\* (mutant) a worker's failure is swallowed: the traversal goes on as if the
\* worker had answered nothing
WorkerReturn_swallow ==
    /\ pc = "await"
    /\ \E r \in runAgent(currentNode, istate) :
        /\ finished' = Append(finished, Resolution(currentNode, r, FALSE))
        /\ Apply(advance(edges, currentNode, istate), istate, combinedHistory,
                 Len(path))
    /\ UNCHANGED <<invocationCount, visitedNodes, path, input>>
    /\ UNCHANGED buildVars
    /\ UNCHANGED <<mutexVars, agentVars>>

\* The awaited worker answers: runAgent's result is adopted and the iteration
\* goes on to the node's edges.
WorkerReturn ==
    /\ pc = "await"
    /\ \E r \in runAgent(currentNode, istate) :
        /\ finished' = Append(finished, Resolution(currentNode, r, FALSE))
        /\ IF r.kind = "throw" THEN
              /\ pc' = "failed"
              /\ err' = "agent_error"
              /\ UNCHANGED <<istate, currentNode, combinedHistory, par, started,
                             edgeCalls>>
           ELSE \E loggerThrows \in LoggerThrows :
                  Apply(logEdgeTraversal(advance(edges, currentNode, adoptState(istate, r)),
                                         loggerThrows),
                        adoptState(istate, r), appendHistory(combinedHistory, r),
                        Len(path))
    /\ UNCHANGED <<invocationCount, visitedNodes, path, input>>
    /\ UNCHANGED buildVars
    /\ UNCHANGED <<mutexVars, agentVars>>

\* One branch of a fan-out answers.  Promise.all rejects at the first branch
\* that throws; the branches still running go on and their answers are dropped.
BranchReturn ==
    /\ pc \in {"par", "failed"}
    /\ \E i \in DOMAIN par.tos :
        /\ par.status[i] = "run"
        /\ \E r \in runAgent(par.tos[i], par.stateIn) :
            /\ finished' = Append(finished, Resolution(par.tos[i], r, TRUE))
            /\ par' = [par EXCEPT !.status[i] = IF r.kind = "throw" THEN "fail" ELSE "ok",
                                  !.results[i] = r,
                                  !.order = Append(@, i)]
            /\ IF r.kind = "throw" /\ pc = "par" THEN
                  /\ pc' = "failed"
                  /\ err' = "parallel_failed"
               ELSE UNCHANGED <<pc, err>>
    /\ UNCHANGED <<istate, currentNode, combinedHistory, invocationCount,
                   visitedNodes, path, started, input, edgeCalls>>
    /\ UNCHANGED buildVars
    /\ UNCHANGED <<mutexVars, agentVars>>

\* Promise.all has resolved: the rest of handleParallelEdges and the
\* assignment of its result to currentNode.
ParallelJoin ==
    /\ pc = "par"
    /\ allResolved(par.status)
    /\ LET edgeList == edges[par.from]
           k == findParallel(edgeList, 1)
           postNode == IF k = 0 \/ edgeList[k].next = Null THEN "END"
                       ELSE edgeList[k].next IN
       /\ par' = [par EXCEPT !.local = handleParallelState(par.results, 1, par.stateIn),
                            !.joined = TRUE]
       /\ IF k # 0 /\ postNode # "END" /\ ~nodeExists(edges, postNode) THEN
             /\ pc' = "failed"
             /\ err' = "unknown_node"
             /\ UNCHANGED currentNode
          ELSE
             /\ pc' = "loop"
             /\ currentNode' = postNode
             /\ UNCHANGED err
    /\ UNCHANGED <<istate, combinedHistory, invocationCount, visitedNodes, path,
                   started, finished, input, edgeCalls>>
    /\ UNCHANGED buildVars
    /\ UNCHANGED <<mutexVars, agentVars>>

Next ==
    \/ AddEdge
    \/ AddConditionalEdge
    \/ AddParallelEdges
    \/ Invoke
    \/ Iterate
    \/ WorkerReturn
    \/ BranchReturn
    \/ ParallelJoin

NextBuild == FreeAddEdge \/ FreeAddConditionalEdge \/ FreeAddParallelEdges

Spec == Init /\ [][Next]_vars

\* a caller that calls invoke a second time, on a hand-built graph or on the
\* graph of a Team
InitAgain ==
    /\ prog \in {p \in Programs : p.kind \in {"graph", "team"}}
    /\ script = ScriptOf(prog)
    /\ InitRun
NextAgain == Next \/ InvokeAgain
SpecAgain == InitAgain /\ [][NextAgain]_vars

SpecBuild == InitBuild /\ [][NextBuild]_vars

\* ------------------------------------------------- concurrent invoke calls
\* invoke runs its whole body inside invocationMutex.runExclusive: the call
\* acquires the mutex (at once when it is free and nobody waits, in its turn
\* otherwise), runs the traversal, and releases the mutex when the traversal
\* returns or throws.  The traversal of a call is a number of steps, each a
\* worker invocation or an edge function call.

\* (mutant) the mutex never holds anybody back
isFree_always(value, queue) == TRUE

\* the semaphore behind the mutex hands out its one permit when it has it
\* and no earlier call waits
isFree(value, queue) == value > 0 /\ queue = <<>>

CallInvoke ==
    \E c \in Callers :
        /\ callpc[c] = "idle"
        /\ IF isFree(mutexValue, mutexQueue) THEN
              /\ mutexValue' = 0
              /\ callpc' = [callpc EXCEPT ![c] = "running"]
              /\ UNCHANGED mutexQueue
           ELSE
              /\ mutexQueue' = Append(mutexQueue, c)
              /\ callpc' = [callpc EXCEPT ![c] = "waiting"]
              /\ UNCHANGED mutexValue
        /\ UNCHANGED <<callSteps, traversalLog, previous, calledBy>>
        /\ UNCHANGED <<graphVars, agentVars>>

TraversalStep ==
    \E c \in Callers :
        /\ callpc[c] = "running"
        /\ callSteps[c] < MaxSteps
        /\ callSteps' = [callSteps EXCEPT ![c] = @ + 1]
        /\ traversalLog' = Append(traversalLog, c)
        /\ UNCHANGED <<mutexValue, mutexQueue, callpc, previous, calledBy>>
        /\ UNCHANGED <<graphVars, agentVars>>

\* the promise of an invoke call settles: the worker that awaits it, if there
\* is one, goes on, and with it the traversal that awaits the worker
resumeCaller(pcs, caller) ==
    IF caller # 0 /\ pcs[caller] = "blocked" THEN [pcs EXCEPT ![caller] = "running"]
    ELSE pcs

\* (mutant) the mutex is released when the traversal returns and kept when it
\* throws
TraversalEnd_leak ==
    \E c \in Callers, outcome \in {"returned", "thrown"} :
        /\ callpc[c] = "running"
        /\ IF outcome = "thrown" THEN
              /\ callpc' = [resumeCaller(callpc, calledBy[c]) EXCEPT ![c] = outcome]
              /\ UNCHANGED <<mutexValue, mutexQueue>>
           ELSE IF mutexQueue # <<>> THEN
              /\ callpc' = [resumeCaller(callpc, calledBy[c])
                               EXCEPT ![c] = outcome,
                                      ![Head(mutexQueue)] = "running"]
              /\ mutexQueue' = Tail(mutexQueue)
              /\ UNCHANGED mutexValue
           ELSE
              /\ callpc' = [resumeCaller(callpc, calledBy[c]) EXCEPT ![c] = outcome]
              /\ mutexValue' = mutexValue + 1
              /\ UNCHANGED mutexQueue
        /\ UNCHANGED <<callSteps, traversalLog, previous, calledBy>>
        /\ UNCHANGED <<graphVars, agentVars>>

\* the traversal returns or throws; `finally` releases the mutex, which goes
\* to the call that has waited longest
TraversalEnd ==
    \E c \in Callers, outcome \in {"returned", "thrown"} :
        /\ callpc[c] = "running"
        /\ IF mutexQueue # <<>> THEN
              /\ callpc' = [resumeCaller(callpc, calledBy[c])
                               EXCEPT ![c] = outcome,
                                      ![Head(mutexQueue)] = "running"]
              /\ mutexQueue' = Tail(mutexQueue)
              /\ UNCHANGED mutexValue
           ELSE
              /\ callpc' = [resumeCaller(callpc, calledBy[c]) EXCEPT ![c] = outcome]
              /\ mutexValue' = mutexValue + 1
              /\ UNCHANGED mutexQueue
        /\ UNCHANGED <<callSteps, traversalLog, previous, calledBy>>
        /\ UNCHANGED <<graphVars, agentVars>>

\* The worker a traversal invokes calls invoke on the same Graph (the Graph is
\* a node of itself, or the worker wraps it): runAgent awaits the worker, the
\* worker awaits the inner call, and the inner call asks for the mutex like
\* any other call.
NestedInvoke ==
    \E c \in Callers, d \in Callers :
        /\ callpc[c] = "running"
        /\ callSteps[c] < MaxSteps
        /\ callpc[d] = "idle"
        /\ callSteps' = [callSteps EXCEPT ![c] = @ + 1]
        /\ traversalLog' = Append(traversalLog, c)
        /\ calledBy' = [calledBy EXCEPT ![d] = c]
        /\ IF isFree(mutexValue, mutexQueue) THEN
              /\ mutexValue' = 0
              /\ callpc' = [callpc EXCEPT ![c] = "blocked", ![d] = "running"]
              /\ UNCHANGED mutexQueue
           ELSE
              /\ mutexQueue' = Append(mutexQueue, d)
              /\ callpc' = [callpc EXCEPT ![c] = "blocked", ![d] = "waiting"]
              /\ UNCHANGED mutexValue
        /\ UNCHANGED previous
        /\ UNCHANGED <<graphVars, agentVars>>

InitMutex == InitBuild

NextMutex == CallInvoke \/ TraversalStep \/ TraversalEnd

NextNested == NextMutex \/ NestedInvoke

\* Calls made from outside and calls made by the workers of a traversal
SpecNested == InitMutex /\ [][NextNested]_vars /\ WF_vars(NextNested)

\* Traversals are finite and the event loop runs every continuation that is
\* ready.
SpecMutex == InitMutex /\ [][NextMutex]_vars /\ WF_vars(NextMutex)

\* Workers and edge functions answer, and the event loop runs every
\* continuation that is ready: no step that can be taken is put off forever.
SpecLive == Spec /\ WF_vars(Next)

\* ------------------------------------------------------------- Agent.invoke
\* An Agent with its number of retries, with or without result evaluations,
\* afterRun state manipulations and prompt injections in its lifecycle.
AgentConfigs ==
    [retries : 0..MaxRetries, evaluations : BOOLEAN, manipulations : BOOLEAN,
     injections : BOOLEAN]

\* what a completion resolves with: content that parses as JSON or content
\* that does not; or the completion rejects
CompletionOutcomes == {"json", "text", "rejects"}

AgentThrown(a, e) == [a EXCEPT !.pc = "thrown", !.err = e]

\* handleStateManipulations(result, i.state, "afterRun"): every manipulation
\* is run; what one throws is thrown on
handleStateManipulations(a, manipulationThrows) ==
    IF ~a.manipulations THEN a
    ELSE IF manipulationThrows THEN AgentThrown(a, "manipulation_failed")
    ELSE [a EXCEPT !.manipulated = TRUE]

\* the end of invoke, after the loop: the manipulations, then the return
afterLoop(a, manipulationThrows) ==
    LET m == handleStateManipulations(a, manipulationThrows) IN
    IF m.pc = "thrown" THEN m ELSE [m EXCEPT !.pc = "returned"]

\* handleResultEvaluations: no evaluations configured passes; content that
\* does not parse throws; otherwise the evaluations decide
handleResultEvaluations(a, result, evaluationsPass) ==
    IF ~a.evaluations THEN [err |-> "none", pass |-> TRUE]
    ELSE IF result = "text" THEN [err |-> "evaluation_failed", pass |-> FALSE]
    ELSE [err |-> "none", pass |-> evaluationsPass]

\* the rest of a loop iteration once the evaluations have answered, and what
\* follows the loop when it is left
afterEvaluation(a, pass, manipulationThrows) ==
    LET b == [a EXCEPT !.passed = Append(@, pass)] IN
    IF pass THEN afterLoop(b, manipulationThrows)
    ELSE IF b.retry = b.retries - 1 THEN AgentThrown(b, "no_final_output")
    ELSE IF b.retry + 1 < b.retries THEN [b EXCEPT !.retry = @ + 1, !.pc = "completion"]
    ELSE afterLoop([b EXCEPT !.retry = @ + 1], manipulationThrows)

NewAgent ==
    /\ agent.pc = "new"
    /\ \E cfg \in AgentConfigs :
          agent' = [NoAgent EXCEPT !.pc = "idle", !.retries = cfg.retries,
                                   !.evaluations = cfg.evaluations,
                                   !.manipulations = cfg.manipulations,
                                   !.injections = cfg.injections]
    /\ UNCHANGED <<graphVars, mutexVars>>

\* invoke up to its first await: the prompt injections, the loop test, and,
\* when the loop is not entered, the rest of invoke
AgentInvoke ==
    /\ agent.pc = "idle"
    /\ \E injectionThrows \in (IF agent.injections THEN BOOLEAN ELSE {FALSE}),
          manipulationThrows \in (IF agent.manipulations /\ ~(0 < agent.retries)
                                  THEN BOOLEAN ELSE {FALSE}) :
          agent' = IF injectionThrows THEN AgentThrown(agent, "injection_failed")
                   ELSE IF 0 < agent.retries THEN [agent EXCEPT !.pc = "completion"]
                   ELSE afterLoop(agent, manipulationThrows)
    /\ UNCHANGED <<graphVars, mutexVars>>

\* `result = await this.completion(...)` settles
Completion ==
    /\ agent.pc = "completion"
    /\ \E outcome \in CompletionOutcomes :
          agent' = IF outcome = "rejects" THEN AgentThrown(agent, "completion_failed")
                   ELSE [agent EXCEPT !.results = Append(@, outcome), !.pc = "evaluate"]
    /\ UNCHANGED <<graphVars, mutexVars>>

\* `await this.handleResultEvaluations(result)` settles and the iteration
\* goes on to its end
ResultEvaluations ==
    /\ agent.pc = "evaluate"
    /\ \E evaluationsPass \in (IF agent.evaluations
                                  /\ agent.results[Len(agent.results)] = "json"
                               THEN BOOLEAN ELSE {FALSE}) :
        LET e == handleResultEvaluations(agent, agent.results[Len(agent.results)],
                                         evaluationsPass) IN
        IF e.err # "none" THEN agent' = AgentThrown(agent, e.err)
        ELSE \E manipulationThrows \in (IF agent.manipulations /\ e.pass
                                        THEN BOOLEAN ELSE {FALSE}) :
                agent' = afterEvaluation(agent, e.pass, manipulationThrows)
    /\ UNCHANGED <<graphVars, mutexVars>>

InitAgent == InitBuild

NextAgent == NewAgent \/ AgentInvoke \/ Completion \/ ResultEvaluations

SpecAgent == InitAgent /\ [][NextAgent]_vars

\* =================================================================== claims
Last(q) == q[Len(q)]
Terminated == pc \in {"done", "failed"}
Running == pc \in {"loop", "await", "par"}

\* The state the k-th sequentially visited worker handed back: the state of
\* its result, or the state it was given when its result holds none.
Returned(k) ==
    IF finished[k].result.hasState THEN finished[k].result.state
    ELSE started[k].state

RECURSIVE SumHist(_)
SumHist(q) ==
    IF q = <<>> THEN 0
    ELSE (IF Head(q).result.hasHistory THEN Len(Head(q).result.history) ELSE 0)
         + SumHist(Tail(q))

\* C1: along sequential edges (no fan-out taken) every worker is invoked with
\* the state the previously visited worker returned (the caller's state for
\* the first one), a returned state replaces the current state as a whole,
\* and invoke returns the state of the last visited worker; START -> A1 -> END
\* with A1 setting seen resolves to {seen: true} and A1's one message.
C1_StateThreading ==
    (par = NoPar /\ (Running \/ Terminated) /\ err \notin {"bad_state", "bad_task",
                                                         "bad_start", "unknown_start"})
    => /\ \A k \in DOMAIN started :
            started[k].state = IF k = 1 THEN input.state ELSE Returned(k - 1)
       /\ finished = <<>> => istate = input.state
       /\ (finished # <<>> /\ Len(finished) = Len(started)
             /\ Last(finished).result.kind = "ok")
            => istate = Returned(Len(finished))
       /\ (pc = "done" /\ prog.kind = "graph" /\ prog.id = 1 /\ input.startNode = Absent)
            => /\ istate = [input.state EXCEPT !.seen = "true"]
               /\ combinedHistory = <<"A1">>

C1_Witness ==
    /\ pc = "done"
    /\ par = NoPar
    /\ Len(finished) = 2
    /\ finished[1].result.state.seen = "true"
    /\ finished[2].result.state.seen = Absent
    /\ started[2].state = finished[1].result.state
    /\ istate = finished[2].result.state

StateUnchanged ==
    \A k \in DOMAIN finished :
        finished[k].result.kind = "ok" /\ Returned(k) = started[k].state

\* C2: a Pipe over N distinct workers that all answer and hand back the
\* state they were given visits them in the declared order, once each, ends at
\* END, returns, and the returned history is as long as the workers' messages
\* together, for every N the Pipe's graph can be built for.
C2_LinearChain ==
    (prog.kind = "pipe" /\ Terminated /\ input.state \in InputStates /\ input.task = "t"
        /\ StateUnchanged)
    => /\ pc = "done"
       /\ currentNode = "END"
       /\ [k \in DOMAIN started |-> started[k].node] = prog.workers
       /\ Len(combinedHistory) = SumHist(finished)

OnlyConditional(n) ==
    /\ n \in DOMAIN edges
    /\ Len(edges[n]) = 1
    /\ edges[n][1].type = "conditional"

\* the step in which the traversal takes the edges of node n
Leaving(n) ==
    /\ currentNode = n
    /\ \/ /\ pc = "loop"
          /\ IsString(n)
          /\ n # "END"
          /\ invocationCount' = invocationCount + 1
          /\ invocationCount < MAX_INVOCATIONS
       \/ /\ pc = "await"
          /\ Len(finished') = Len(finished) + 1
          /\ Last(finished').result.kind = "ok"

\* C3: leaving a node whose only edge is conditional, the node visited next is
\* the one the edge's function returns for the current state; the step invokes
\* no worker and takes the traversal to no other node.
C3_ConditionalRouting ==
    [][\A n \in Nodes :
        (Leaving(n) /\ OnlyConditional(n))
        => LET t == FnApply(edges[n][1].fn, istate') IN
           /\ started' = started
           /\ IF t # Null /\ nodeExists(edges, t)
              THEN pc' = "loop" /\ currentNode' = t
              ELSE currentNode' \in {n, "END"} /\ path' \in {path, Append(path, n)}]_vars

C3_Witness ==
    /\ prog.kind = "graph"
    /\ prog.id = 2
    /\ pc = "await"
    /\ currentNode = "A1"
    /\ path = <<"START", "A2", "A1">>
    /\ started[2].state.route = "A1"

\* C4: once a traversal that took a parallel edge has returned, the returned
\* history holds every message of every branch worker besides the messages
\* of the workers visited in sequence: it is as long as all the workers'
\* messages together and every branch message occurs in it.
C4_FanOutCompleteness ==
    (pc = "done" /\ par.joined)
    => /\ Len(combinedHistory) = SumHist(finished)
       /\ \A k \in DOMAIN finished :
            (finished[k].par /\ finished[k].result.hasHistory)
            => \A m \in DOMAIN finished[k].result.history :
                 \E j \in DOMAIN combinedHistory :
                    combinedHistory[j] = finished[k].result.history[m]

Sequential(q) == SelectSeq(q, LAMBDA x : ~x.par)

\* C5: as long as a branch worker of a fan-out has not answered, the loop has
\* processed no node after the fan-out's source, no worker outside the fan-out
\* has been invoked since, and invoke has not returned; once the loop is past
\* the fan-out's source every branch has answered, in whatever order.
C5_ParallelJoin ==
    /\ (\E i \in DOMAIN par.status : par.status[i] = "run")
       => /\ pc \in {"par", "failed"}
          /\ Len(path) = par.at
          /\ Len(Sequential(started)) = Len(Sequential(finished))
    /\ (par # NoPar /\ (Len(path) > par.at \/ pc = "done"))
       => /\ par.joined
          /\ \A i \in DOMAIN par.status : par.status[i] \in {"ok", "skip"}

C5_Witness ==
    /\ prog.kind = "vote"
    /\ par.joined
    /\ par.order = <<2, 1>>
    /\ pc = "await"
    /\ currentNode = prog.synth
    /\ Len(path) = par.at + 1
    /\ Last(started).node = prog.synth
    /\ ~Last(started).par

JustJoined == par.joined /\ pc = "loop" /\ Len(path) = par.at
LastResolved == par.results[Last(par.order)]

\* C6: after the join of a fan-out the current state is the state returned by
\* the branch that answered last: it is the state the loop goes on with and
\* the state the worker at `next` is invoked with.
C6_LastResolvedState ==
    (par.joined /\ par.order # <<>> /\ LastResolved.hasState)
    => /\ JustJoined => istate = LastResolved.state
       /\ (pc = "await" /\ Len(path) = par.at + 1)
            => Last(started).state = LastResolved.state

Looping == prog.kind = "graph" /\ prog.id \in {3, 4} /\ input.startNode = Absent

\* C7: invoke always comes to an end; the loop never processes more nodes
\* than the ceiling and never begins more than one iteration beyond it; and a
\* traversal that cannot reach END or a dead end (a conditional edge that
\* always routes back to its source, a direct self-loop) ends with the
\* 'possible circular dependency' error, raised by the first iteration above
\* the ceiling.
C7_CycleTermination ==
    /\ <>Terminated
    /\ [](Len(path) <= MAX_INVOCATIONS /\ invocationCount <= MAX_INVOCATIONS + 1)
    /\ []((Looping /\ Terminated /\ err \notin {"bad_state", "bad_task"})
            => /\ pc = "failed"
               /\ err = "circular"
               /\ invocationCount = MAX_INVOCATIONS + 1
               /\ Len(path) = MAX_INVOCATIONS)

C7_Witness ==
    /\ prog.kind = "graph"
    /\ prog.id = 3
    /\ pc = "failed"
    /\ err = "circular"
    /\ Len(path) = MAX_INVOCATIONS
    /\ Last(path) = "A1b"

DeadEnd(n) == n \notin DOMAIN edges \/ edges[n] = <<>>

\* C8: when the worker of a node without outgoing edges answers, invoke
\* returns at once and without an error: the worker is not invoked again, its
\* returned state is the result's state and its messages end the history.
C8_DeadEnd ==
    [][\A n \in Workers :
        (pc = "await" /\ currentNode = n /\ DeadEnd(n)
           /\ Len(finished') = Len(finished) + 1
           /\ Last(finished').result.kind = "ok")
        => LET r == Last(finished').result IN
           /\ pc' = "done"
           /\ err' = "none"
           /\ started' = started
           /\ Last(started).node = n
           /\ istate' = IF r.hasState THEN r.state ELSE istate
           /\ combinedHistory' = combinedHistory
                                   \o (IF r.hasHistory THEN r.history ELSE <<>>)]_vars

C8_Witness ==
    /\ prog.kind = "graph"
    /\ prog.id = 5
    /\ pc = "done"
    /\ err = "none"
    /\ currentNode = "A1"
    /\ path = <<"START", "A1">>
    /\ istate.seen = "true"
    /\ combinedHistory = <<"A1">>

Unknown(s) == IsString(s) /\ s \notin {"START", "END", Null} /\ s \notin DOMAIN edges

ResolvedTo(n, st) ==
    LET e == edges[n][1] IN
    IF e.type = "direct" THEN {e.to}
    ELSE IF e.type = "conditional" THEN {FnApply(e.fn, st)}
    ELSE {e.tos[i] : i \in DOMAIN e.tos}

NewEdge ==
    IF call.op = "addEdge" THEN DirectEdge(call.to)
    ELSE IF call.op = "addConditionalEdge" THEN ConditionalEdge(call.fn)
    ELSE ParallelEdge(call.tos.items, call.next)

ValidCall ==
    /\ call.op # "none"
    /\ call.from # Null
    /\ call.op = "addEdge" => call.to # Null
    /\ call.op = "addConditionalEdge" => call.fn \in Fns
    /\ call.op = "addParallelEdges"
         => /\ call.tos.isArray
            /\ \A i \in DOMAIN call.tos.items : call.tos.items[i] \in Strings \cup Agents
            /\ call.next \in {Null} \cup Strings \cup Agents

EdgesBefore ==
    IF call.from \in DOMAIN call.before THEN call.before[call.from] ELSE <<>>

\* the same edge, kind by kind; nodes and functions are the same when they
\* are the same instance, target lists when they hold the same nodes in the
\* same order
SameEdge(e1, e2) ==
    /\ e1.type = e2.type
    /\ e1.type = "direct" => e1.to = e2.to
    /\ e1.type = "conditional" => e1.fn = e2.fn
    /\ e1.type = "parallel" => (e1.tos = e2.tos /\ e1.next = e2.next)

AlreadyThere == \E k \in DOMAIN EdgesBefore : SameEdge(EdgesBefore[k], NewEdge)

\* C10: a construction call with valid arguments whose edge is already on the
\* source node (same `to`; same function; same target list in the same order
\* and same `next`) throws and leaves the edge map as it was; a call whose
\* edge differs from every edge on the source node (another `to`, another
\* function, the target list in another order, another `next`), made while
\* the caps leave room, does not throw and appends the edge to the node's list.
C10_DuplicateEdge ==
    ValidCall
    => /\ AlreadyThere
         => /\ call.err \in {"duplicate", "max_edges"}
            /\ edges = call.before
       /\ (~AlreadyThere /\ Len(EdgesBefore) < MAX_EDGES_PER_NODE
             /\ Cardinality(DOMAIN call.before) < MAX_NODES)
         => /\ call.err = "none"
            /\ edges = Put(call.before, call.from, Append(EdgesBefore, NewEdge))

InTraversal == {c \in Callers : callpc[c] = "running"}

\* C11: of the invoke calls made on one Graph at most one is in its traversal
\* at any time; a call that has not got the mutex yet has invoked no worker
\* and called no edge function; the steps of two traversals never interleave;
\* and every call that waits gets its turn.
C11_MutualExclusion ==
    /\ [](Cardinality(InTraversal) <= 1)
    /\ [](\A c \in Callers : callpc[c] \in {"idle", "waiting"} => callSteps[c] = 0)
    /\ [](\A i, j, k \in DOMAIN traversalLog :
            (i < j /\ j < k /\ traversalLog[i] = traversalLog[k])
            => traversalLog[j] = traversalLog[i])
    /\ \A c \in Callers : (callpc[c] = "waiting") ~> (callpc[c] = "running")

C11_Witness ==
    /\ traversalLog = <<2, 2, 1>>
    /\ callpc[2] \in {"returned", "thrown"}
    /\ callpc[1] = "running"
    /\ callpc[3] = "waiting"
    /\ mutexQueue = <<3>>

BuildErrors == {"null_node", "max_nodes", "max_edges", "duplicate", "bad_fn",
                "bad_targets", "bad_next"}
\* invoke has been called
Invoked == pc # "build" /\ err \notin BuildErrors
\* invoke has thrown e before any step of the traversal
RejectedWith(e) ==
    /\ pc = "failed"
    /\ err = e
    /\ started = <<>>
    /\ path = <<>>
    /\ invocationCount = 0
    /\ istate = NullState

\* C12: invoke rejects a state that is null or no object, a task that is empty
\* or no string and a startNode that is null, each with an error of its own
\* and before any worker is invoked or any edge function is called.
C12_InputValidation ==
    Invoked
    => /\ input.state \in {NullState, NumberState} => RejectedWith("bad_state")
       /\ (input.state \in InputStates /\ input.task \in {"", NumberTask})
            => RejectedWith("bad_task")
       /\ (input.state \in InputStates /\ input.task = "t" /\ input.startNode = Null)
            => RejectedWith("bad_start")

ValidStateAndTask == input.state \in InputStates /\ input.task = "t"

\* C13: a startNode that is neither a source key of the edge map nor START nor
\* END (a string that was never registered, a worker that was never added) is
\* rejected before any worker is invoked.
C13_StartNodeExists ==
    (Invoked /\ ValidStateAndTask /\ input.startNode \notin {Absent, Null}
       /\ input.startNode \notin (DOMAIN edges) \cup {"START", "END"})
    => RejectedWith("unknown_start")

Sentinels == {"START", "END"}

\* C14: START and END are valid nodes on every graph: invoke from START (the
\* default) or from END is never rejected for a start node that does not
\* exist, and a traversal never fails with the node-does-not-exist error over
\* an edge that resolves to START or END or a parallel edge whose `next` is
\* START or END.
C14_SentinelValidity ==
    /\ (Invoked /\ input.startNode \in {Absent, "START", "END"})
         => err # "unknown_start"
    /\ (pc = "failed" /\ err = "unknown_node" /\ ~par.joined)
         => \E s \in ResolvedTo(currentNode, istate) : s \notin Sentinels
    /\ (pc = "failed" /\ err = "unknown_node" /\ par.joined)
         => edges[par.from][findParallel(edges[par.from], 1)].next \notin Sentinels

\* the first edge of node n is conditional and its function returns null or
\* undefined for state st
NoRoute(n, st) ==
    /\ n \in DOMAIN edges
    /\ edges[n] # <<>>
    /\ edges[n][1].type = "conditional"
    /\ FnApply(edges[n][1].fn, st) = Null

\* C15: a conditional edge whose function returns null or undefined never
\* makes invoke throw: the step goes on with the node's next edge, and when
\* the node has no other edge the traversal has reached END.
C15_NoRoute ==
    [][\A n \in Nodes :
        (Leaving(n) /\ NoRoute(n, istate'))
        => /\ pc' # "failed"
           /\ Len(edges[n]) = 1 => (pc' = "loop" /\ currentNode' = "END")]_vars

\* the step in which the worker awaited at a sequential step fails
SequentialFailure ==
    /\ pc = "await"
    /\ Len(finished') = Len(finished) + 1
    /\ Last(finished').result.kind = "throw"

\* C16: when the worker of a sequential step throws, invoke fails with the
\* error that wraps the worker's (the failing worker is the current node and
\* the last one invoked), the worker has been invoked once for the visit and
\* is not invoked again, no result is put together, and from then on no node
\* is visited and no worker is invoked.
C16_WorkerFailure ==
    [][/\ SequentialFailure
          => /\ pc' = "failed"
             /\ err' = "agent_error"
             /\ Last(finished').node = currentNode
             /\ Last(started).node = currentNode
             /\ Len(Sequential(started)) = Len(Sequential(finished'))
             /\ started' = started
             /\ path' = path
             /\ currentNode' = currentNode
             /\ istate' = istate
             /\ combinedHistory' = combinedHistory
       /\ (pc = "failed" /\ err = "agent_error")
          => /\ pc' = "failed"
             /\ err' = "agent_error"
             /\ started' = started
             /\ path' = path]_vars

C16_Witness ==
    /\ prog.kind = "pipe"
    /\ prog.workers = <<"A1", "A3", "A2">>
    /\ pc = "failed"
    /\ err = "agent_error"
    /\ path = <<"START", "A1", "A3">>
    /\ Len(started) = 2
    /\ Last(finished).result = Throws(istate)
    /\ combinedHistory = <<"A1">>

WrongShape(r) ==
    \/ ~r.isObject
    \/ r.hasState /\ ~r.stateIsObject
    \/ r.hasHistory /\ ~r.historyIsArray

\* C17: a worker's answer without `state` leaves the current state as it is
\* and an answer without `history` adds no message; an answer that is no
\* object, or whose `state` is no object, or whose `history` is no array,
\* makes invoke fail without another node visited or worker invoked.
C17_ResultShape ==
    [][(Len(finished') = Len(finished) + 1)
        => LET r == Last(finished').result IN
           /\ (pc = "await" /\ r.kind = "ok" /\ ~r.hasState) => istate' = istate
           /\ (pc = "await" /\ r.kind = "ok" /\ ~r.hasHistory)
                => combinedHistory' = combinedHistory
           /\ WrongShape(r)
                => /\ pc' = "failed"
                   /\ err' \in {"agent_error", "parallel_failed"}
                   /\ started' = started
                   /\ path' = path
                   /\ istate' = istate
                   /\ combinedHistory' = combinedHistory]_vars

C17_Witness ==
    /\ prog.kind = "pipe"
    /\ prog.workers = <<"A1", "A3", "A2">>
    /\ pc = "failed"
    /\ err = "agent_error"
    /\ path = <<"START", "A1", "A3">>
    /\ Last(finished).result.hasHistory
    /\ ~Last(finished).result.historyIsArray
    /\ istate.seen = "true"
    /\ combinedHistory = <<"A1">>

\* C18: whatever construction calls were made, the edge map holds at most
\* MAX_NODES source nodes and no source node holds more than
\* MAX_EDGES_PER_NODE edges.
C18_CardinalityCaps ==
    /\ Cardinality(DOMAIN edges) <= MAX_NODES
    /\ \A n \in DOMAIN edges : Len(edges[n]) <= MAX_EDGES_PER_NODE

\* C19: addEdge throws for capacity only when the source would be one source
\* node too many or holds MAX_EDGES_PER_NODE edges already; a new direct edge
\* from a registered source with room is accepted and appended however many
\* source nodes the map holds.
C19_AddEdgeCapacity ==
    (call.op = "addEdge" /\ call.from # Null /\ call.to # Null)
    => /\ call.err = "max_nodes"
            => /\ call.from \notin DOMAIN call.before
               /\ Cardinality(DOMAIN call.before) >= MAX_NODES
       /\ call.err = "max_edges" => Len(EdgesBefore) >= MAX_EDGES_PER_NODE
       /\ (call.from \in DOMAIN call.before /\ Len(EdgesBefore) < MAX_EDGES_PER_NODE
             /\ ~AlreadyThere)
            => /\ call.err = "none"
               /\ edges = Put(call.before, call.from, Append(EdgesBefore, NewEdge))

\* a non-empty array of node values: strings and workers of any kind
ValidTargets ==
    /\ call.tos.isArray
    /\ call.tos.items # <<>>
    /\ \A i \in DOMAIN call.tos.items : call.tos.items[i] \in Strings \cup Workers

\* C20: addParallelEdges (valid source and `next`, first edge on its source)
\* adds the edge exactly when the targets are a non-empty array of node
\* values (strings, agents, composites); otherwise it throws and the edge
\* map stays as it was.
C20_ParallelTargets ==
    (call.op = "addParallelEdges" /\ call.from # Null
       /\ call.next \in {Null} \cup Strings \cup Workers /\ EdgesBefore = <<>>
       /\ Cardinality(DOMAIN call.before) < MAX_NODES)
    => IF ValidTargets
       THEN /\ call.err = "none"
            /\ edges = Put(call.before, call.from, <<NewEdge>>)
       ELSE /\ call.err # "none"
            /\ edges = call.before

IsPrefix(p, q) == Len(p) <= Len(q) /\ \A j \in DOMAIN p : p[j] = q[j]

\* the message sequences the workers visited by the loop returned, one after
\* the other in the order of the visits
RECURSIVE VisitedHistory(_)
VisitedHistory(q) ==
    IF q = <<>> THEN <<>>
    ELSE (IF ~Head(q).par /\ Head(q).result.kind = "ok" /\ Head(q).result.hasHistory
          THEN Head(q).result.history ELSE <<>>)
         \o VisitedHistory(Tail(q))

NoFailure == err \notin {"bad_state", "bad_task", "agent_error"}

\* C22: a Pipe over any worker list (the empty list and lists that hold the
\* same instance twice included) is built without error and, unless its
\* inputs are rejected or a worker fails, its traversal visits START and then
\* the list positions in declared order, once each, invokes exactly these
\* workers, and ends successfully at END.
C22_PipeChain ==
    (prog.kind = "pipe" /\ NoFailure)
    => /\ err \notin BuildErrors
       /\ IsPrefix(path, <<"START">> \o prog.workers)
       /\ Terminated
          => /\ pc = "done"
             /\ currentNode = "END"
             /\ path = <<"START">> \o prog.workers
             /\ [k \in DOMAIN started |-> started[k].node] = prog.workers

\* a sequentially invoked worker has just answered and the traversal goes on
Answered ==
    /\ pc = "await"
    /\ Len(finished') = Len(finished) + 1
    /\ pc' # "failed"
\* the workers of the team that carry the name the router asks for
Named(st) ==
    {prog.workers[i] : i \in {j \in DOMAIN prog.workers :
                                 NameOf(prog.workers[j]) = RouterNext(st)}}
\* START, the supervisor, and from then on a worker and the supervisor in turn
StarPath(q) ==
    /\ q # <<>> => q[1] = "START"
    /\ \A k \in 2..Len(q) :
         /\ (q[k] = prog.supervisor) <=> (q[k - 1] # prog.supervisor)
         /\ q[k] # prog.supervisor => \E i \in DOMAIN prog.workers : prog.workers[i] = q[k]

\* C23: in a Team's traversal, when the supervisor has answered the next
\* node is END if the state's router is done or names no worker of the team,
\* and the worker of the name router.next otherwise; when a worker has
\* answered the next node is the supervisor; the nodes visited are START,
\* the supervisor, and then workers and the supervisor in turn, each of them
\* invoked when visited, and a traversal that returns has ended at END.
C23_TeamStar ==
    [][prog.kind = "team"
       => /\ Answered
             => /\ pc' = "loop"
                /\ IF currentNode # prog.supervisor THEN currentNode' = prog.supervisor
                   ELSE IF RouterDone(istate') \/ Named(istate') = {}
                        THEN currentNode' = "END"
                   ELSE currentNode' \in Named(istate')
          /\ StarPath(path')
          /\ [k \in DOMAIN started' |-> started'[k].node]
                = [k \in 1..(Len(path') - 1) |-> path'[k + 1]]
          /\ pc' = "done" => currentNode' = "END"]_vars

C23_Witness ==
    /\ prog.kind = "team"
    /\ prog.workers = <<"A1b", "A1">>
    /\ path = <<"START", "A2", "A1b", "A2">>
    /\ Len(finished) = 3
    /\ istate.route = "B"
    /\ currentNode = "END"

BranchStarts == SelectSeq(started, LAMBDA x : x.par)
SequentialStarts == SelectSeq(started, LAMBDA x : ~x.par)

\* C24: a Vote is built without error and, unless its inputs are rejected or
\* one of its workers fails, its traversal invokes every worker of the list
\* exactly once with the caller's state, invokes the synthesizer exactly once
\* and only when every worker has answered, invokes no worker once the
\* synthesizer has started, and ends successfully at END.
C24_VoteFanOutFanIn ==
    (prog.kind = "vote" /\ NoFailure /\ err # "parallel_failed")
    => /\ err \notin BuildErrors
       /\ SequentialStarts # <<>>
          => /\ allResolved(par.status)
             /\ started = BranchStarts \o SequentialStarts
             /\ [k \in DOMAIN SequentialStarts |-> SequentialStarts[k].node]
                   = <<prog.synth>>
       /\ (BranchStarts # <<>> \/ Terminated)
          => /\ [k \in DOMAIN BranchStarts |-> BranchStarts[k].node] = prog.workers
             /\ \A k \in DOMAIN BranchStarts : BranchStarts[k].state = input.state
       /\ Terminated
          => /\ pc = "done"
             /\ currentNode = "END"
             /\ Len(SequentialStarts) = 1
             /\ Len(finished) = Len(started)

\* an edge yields a target: a direct and a parallel edge always, a
\* conditional edge when its function returns a node
Yields(e, st) == e.type = "conditional" => FnApply(e.fn, st) # Null
\* the first edge of the list that yields a target, 0 when none does
FirstYield(edgeList, st) ==
    IF \E i \in DOMAIN edgeList : Yields(edgeList[i], st)
    THEN CHOOSE i \in DOMAIN edgeList :
            /\ Yields(edgeList[i], st)
            /\ \A j \in 1..(i - 1) : ~Yields(edgeList[j], st)
    ELSE 0
\* a visit took the edge e
Took(v, e) ==
    \/ v.kind = "failed" /\ v.err = "unknown_node"
    \/ e.type = "direct" /\ v.kind = "goto" /\ v.next = e.to
    \/ e.type = "conditional" /\ v.kind = "goto" /\ v.next = FnApply(e.fn, v.calls[1].state)
    \/ e.type = "parallel" /\ v.kind = "fanout" /\ v.nexts = e.tos

\* C25: on every visit that looks for a next node the edges are evaluated in
\* insertion order, from the first edge up to the first edge that yields a
\* target and no further; that edge determines the next step; so no function
\* of a conditional edge behind it is called and no edge behind a direct or
\* parallel edge is ever selected.
C25_EdgeOrder ==
    \A k \in DOMAIN edgeCalls :
        LET v == edgeCalls[k]
            edgeList == edges[v.node]
            st == v.calls[1].state
            first == FirstYield(edgeList, st) IN
        /\ \A c \in DOMAIN v.calls : v.calls[c].edge = c
        /\ Len(v.calls) = IF first = 0 THEN Len(edgeList) ELSE first
        /\ first # 0 => Took(v, edgeList[first])
        /\ first = 0 => v.kind = "goto" /\ v.next = "END"
        /\ \A i \in DOMAIN edgeList :
             edgeList[i].type \in {"direct", "parallel"} => Len(v.calls) <= i

\* the number of workers among the first p nodes of the path
WorkersUpTo(p) == Len(SelectSeq(SubSeq(path, 1, p), LAMBDA n : ~IsString(n)))
\* the state the j-th worker visited by the loop handed back (its own when
\* its result holds none); the caller's state for j = 0
HandedBack(j) ==
    IF j = 0 THEN input.state
    ELSE IF Sequential(finished)[j].result.hasState
         THEN Sequential(finished)[j].result.state
         ELSE SequentialStarts[j].state
\* the visit is the one of the node a fan-out named as its next, and what
\* the traversal held when the node's edges were evaluated is what the join
\* left (a string node, or a worker that hands back the state it was given)
AfterJoin(v) ==
    /\ par.joined
    /\ par.order # <<>>
    /\ LastResolved.hasState
    /\ v.visit = par.at + 1
    /\ ~IsString(v.node) =>
          HandedBack(WorkersUpTo(v.visit)) = SequentialStarts[WorkersUpTo(v.visit)].state
ConditionalCalls(v) == SelectSeq(v.calls, LAMBDA c : c.type = "conditional")

\* C26: every call of a conditional edge function made on leaving a node
\* passes the state the traversal holds at that moment: the state the node's
\* worker has just handed back (for a string node, the state held before),
\* and for the node named as the next of a fan-out the state of the branch
\* that answered last; on one visit each conditional edge reached in the
\* edge order is called once.
C26_CurrentState ==
    \A k \in DOMAIN edgeCalls :
        LET v == edgeCalls[k] IN
        /\ \A c \in DOMAIN ConditionalCalls(v) :
              /\ ConditionalCalls(v)[c].state = HandedBack(WorkersUpTo(v.visit))
              /\ AfterJoin(v) => ConditionalCalls(v)[c].state = LastResolved.state
        /\ \A c, d \in DOMAIN v.calls : v.calls[c].edge = v.calls[d].edge => c = d
        /\ \A c \in DOMAIN v.calls : v.calls[c].edge = c

\* worker invocations of the loop (not of a fan-out) that have not answered
InFlight == Len(SequentialStarts) - Len(Sequential(finished))
BranchRunning == \E i \in DOMAIN par.status : par.status[i] = "run"

\* C27: outside a fan-out at most one worker invocation of the traversal is
\* in flight, and the loop starts the worker at a node only when every worker
\* it visited before (a composite worker with its nested traversal included)
\* has answered, the last of them successfully, and no branch is running.
C27_Serialized ==
    [][/\ InFlight' \in {0, 1}
       /\ Len(SequentialStarts') > Len(SequentialStarts)
          => /\ InFlight = 0
             /\ ~BranchRunning
             /\ \A k \in DOMAIN finished : finished[k].result.kind = "ok"
             /\ Len(SequentialStarts') = Len(SequentialStarts) + 1]_vars

C27_Witness ==
    /\ prog.kind = "pipe"
    /\ prog.workers = <<"P1", "A1", "V1">>
    /\ pc = "await"
    /\ currentNode = "V1"
    /\ Len(finished) = 2
    /\ Len(started) = 3
    /\ InFlight = 1

FanOutTaken == pc # "par" /\ pc' = "par"
BranchAnswered == Len(finished') > Len(finished) /\ Last(finished').par
WorkerMembers(tos) == SelectSeq(tos, LAMBDA n : ~IsString(n))

\* C28: the step that takes a parallel edge invokes every worker member of
\* the target list once, in the order of the list, each with the state the
\* traversal holds at that moment, and none of them has answered when the
\* last is started; string members are not invoked; no other step invokes a
\* branch worker; and when a branch worker answers its own edges are not
\* followed (the traversal's node, path, state and edge evaluations stay).
C28_FanOutStart ==
    [][/\ FanOutTaken
          => /\ started' = started \o
                   [k \in DOMAIN WorkerMembers(par'.tos) |->
                       [node |-> WorkerMembers(par'.tos)[k], state |-> istate',
                        par |-> TRUE]]
             /\ \A i \in DOMAIN par'.tos :
                   par'.status[i] = IF IsString(par'.tos[i]) THEN "skip" ELSE "run"
             /\ par'.order = <<>>
             /\ SelectSeq(finished', LAMBDA x : x.par) = SelectSeq(finished, LAMBDA x : x.par)
       /\ ~FanOutTaken => BranchStarts' = BranchStarts
       /\ BranchAnswered
          => /\ UNCHANGED <<currentNode, path, istate, edgeCalls, started>>
             /\ ~IsString(Last(finished').node)]_vars

C28_Witness ==
    /\ prog.kind = "graph"
    /\ prog.id = 9
    /\ pc = "par"
    /\ par.tos = <<"C", "A1", "A3">>
    /\ par.status = <<"skip", "ok", "run">>
    /\ Len(BranchStarts) = 2
    /\ BranchStarts[1].node = "A1"
    /\ BranchStarts[2].node = "A3"
    /\ BranchStarts[2].state = Returned(1)

\* C29: while a branch worker started by a fan-out has not answered, invoke
\* has neither returned nor thrown (its body, which runs inside the instance
\* mutex, has not ended, so the mutex is still held by this traversal), also
\* when another branch of the fan-out has failed.
C29_SuspendedUntilSettled ==
    BranchRunning => /\ Running
                     /\ ~Terminated

\* the circular-dependency error has just been raised
CircularRaised == pc = "failed" /\ err = "circular"

\* C30: the circular-dependency error is never raised while the current node
\* is END, the iteration that finds the current node END neither increments
\* nor tests the counter, and a traversal that has come to END after at most
\* MAX_INVOCATIONS steps at other nodes returns successfully.
C30_EndBeforeCounter ==
    [][/\ CircularRaised' => currentNode' # "END"
       /\ (pc = "loop" /\ currentNode = "END")
          => /\ invocationCount' = invocationCount
             /\ Len(path) <= MAX_INVOCATIONS => pc' = "done"]_vars

\* the parallel edge the running fan-out was taken from
TakenEdge ==
    CHOOSE e \in {edges[par.from][i] : i \in DOMAIN edges[par.from]} :
        e.type = "parallel" /\ e.tos = par.tos
\* the join of a fan-out: Promise.all has resolved and the loop goes on
Joins == pc = "par" /\ pc' # "par" /\ par'.joined

\* C31: addParallelEdges never rejects a call because its next is a string
\* that is no source yet; when the fan-out of such an edge joins, the
\* traversal goes on at that string if it is a source by then (or is END),
\* and otherwise invoke fails with the unknown-node error, in both cases
\* after every branch has answered.
C31_ForwardNext ==
    [][/\ (call'.op = "addParallelEdges" /\ IsString(call'.next)) => call'.err # "bad_next"
       /\ (Joins /\ IsString(TakenEdge.next))
          => /\ \A i \in DOMAIN par.status : par.status[i] \in {"ok", "skip"}
             /\ IF TakenEdge.next = "END" \/ TakenEdge.next \in DOMAIN edges
                THEN pc' = "loop" /\ currentNode' = TakenEdge.next
                ELSE pc' = "failed" /\ err' = "unknown_node"]_vars

C31_Witness ==
    /\ prog.kind = "graph"
    /\ prog.id = 17
    /\ par.joined
    /\ par.status = <<"ok", "ok">>
    /\ Len(finished) = 2
    /\ pc = "failed"
    /\ err = "unknown_node"

\* the step has looked for the next node and the logger threw while the
\* traversal of the edge was logged
LoggingFailed == Len(edgeCalls') > Len(edgeCalls) /\ Last(edgeCalls').warned

\* C32: a step in which logging the edge traversal fails ends exactly as the
\* node's edges and the current state determine: invoke does not fail
\* because of the logger, the next node (or fan-out, or error of the edges)
\* is the one the edges yield, and state and history are what the node's
\* worker handed back.
C32_BestEffortLogging ==
    [][LoggingFailed
       => LET v == Last(edgeCalls')
              a == advance(edges, v.node, istate') IN
          /\ err' \in {"none", "unknown_node"}
          /\ v.kind = a.kind /\ v.err = a.err /\ v.next = a.node /\ v.nexts = a.nodes
          /\ a.kind = "goto" => pc' = "loop" /\ currentNode' = a.node
          /\ a.kind = "fanout" => pc' = "par" /\ par'.tos = a.nodes
          /\ a.kind = "failed" => pc' = "failed" /\ err' = a.err
          /\ istate' = IF Len(finished') > Len(finished) /\ Last(finished').result.hasState
                        THEN Last(finished').result.state
                        ELSE istate
          /\ combinedHistory' = VisitedHistory(finished')]_vars

C32_Witness ==
    /\ pc = "done"
    /\ prog.kind = "pipe"
    /\ prog.workers = <<"A1", "A2">>
    /\ Len(edgeCalls) = 3
    /\ edgeCalls[2].warned
    /\ edgeCalls[2].node = "A1"
    /\ combinedHistory = <<"A1", "A2", "A2">>

Rejected == err \in {"bad_state", "bad_task", "bad_start", "unknown_start"}

\* C33: no step of an invoke call changes the edge map; a second call
\* starts with the counter at zero, an empty visited set and an empty
\* history; and when the second call was given what the first was given and
\* its workers answered as they did in the first, it visits the same nodes
\* and ends with the same outcome, state and history.
C33_GraphUnchanged ==
    [][/\ (pc # "build" \/ script = <<>>) => edges' = edges
       /\ (previous'.called /\ ~previous.called /\ pc' = "loop")
          => invocationCount' = 0 /\ visitedNodes' = {} /\ combinedHistory' = <<>>
       /\ (previous'.called /\ pc' \in {"done", "failed"}
             /\ finished' = previous'.finished)
          => /\ path' = previous'.path
             /\ pc' = previous'.pc
             /\ err' = previous'.err
             /\ istate' = previous'.state
             /\ combinedHistory' = previous'.history
             /\ invocationCount' = previous'.count]_vars

C33_Witness ==
    /\ previous.called
    /\ prog.kind = "graph"
    /\ prog.id = 2
    /\ pc = "done"
    /\ path = <<"START", "A2">>
    /\ previous.path = path
    /\ previous.history = <<"A2", "A2">>
    /\ combinedHistory = previous.history
    /\ istate = previous.state

\* C34: when the worker a traversal of the Graph invokes calls invoke on the
\* same Graph, the inner call gets to run and the outer call completes: a
\* call made by a worker that waits for the mutex runs in the end, and a
\* traversal that awaits such a worker returns or throws in the end.
C34_ReentrantInvoke ==
    /\ \A d \in Callers :
          (callpc[d] = "waiting" /\ calledBy[d] # 0) ~> (callpc[d] = "running")
    /\ \A c \in Callers :
          (callpc[c] = "blocked") ~> (callpc[c] \in {"returned", "thrown"})

\* two edges of one kind that are not the same edge but name workers with
\* equal names and field values at the same places
Lookalike(e1, e2) ==
    /\ e1.type = e2.type
    /\ ~SameEdge(e1, e2)
    /\ e1.type = "direct"
         => (IsAgent(e1.to) /\ IsAgent(e2.to) /\ AgentFields(e1.to) = AgentFields(e2.to))
    /\ e1.type = "conditional" => FALSE
    /\ e1.type = "parallel"
         => (JSONstringify(e1.tos) = JSONstringify(e2.tos) /\ e1.next = e2.next)

HasLookalike == \E k \in DOMAIN EdgesBefore : Lookalike(EdgesBefore[k], NewEdge)

\* C35: duplicate detection compares nodes by identity: a call with valid
\* arguments whose edge names other worker instances than an edge already on
\* the source node, equal to them in name and field values (a direct edge to
\* the other instance; a parallel edge over other instances with the same
\* `next`), and which is the same as no edge on the node, is accepted while the
\* caps leave room and its edge is appended.
C35_IdentityComparison ==
    (ValidCall /\ HasLookalike /\ ~AlreadyThere
       /\ Len(EdgesBefore) < MAX_EDGES_PER_NODE
       /\ Cardinality(DOMAIN call.before) < MAX_NODES)
    => /\ call.err = "none"
       /\ edges = Put(call.before, call.from, Append(EdgesBefore, NewEdge))

NoEqualEdges(list) ==
    \A i, j \in DOMAIN list : i # j => ~areEdgesEqual(list[i], list[j])

\* C38: after any construction calls, accepted or rejected, every source node
\* of the edge map holds at least one edge and no two edges of one list are
\* equal under the duplicate rule of their kind; so a string other than END
\* exists only when it has an outgoing edge, and only a node that is no source
\* of the map is a dead end.
C38_NoEmptySource ==
    /\ \A n \in DOMAIN edges : Len(edges[n]) >= 1 /\ NoEqualEdges(edges[n])
    /\ \A s \in Strings \ {"END"} :
          nodeExists(edges, s) => (s \in DOMAIN edges /\ Len(edges[s]) >= 1)
    /\ \A n \in Nodes, st \in InputStates :
          advance(edges, n, st).kind = "done" => n \notin DOMAIN edges

C38_Witness ==
    /\ call.err = "duplicate"
    /\ call.op = "addConditionalEdge"
    /\ ncalls = 3
    /\ DOMAIN edges = {"START", "A1"}
    /\ Len(edges["START"]) = 1
    /\ Len(edges["A1"]) = 1

Ended(c) == callpc[c] \in {"returned", "thrown"}

\* C36: the mutex is released however an invoke call ends: it is held exactly
\* while some call is in its traversal; once a call has returned or thrown
\* (before its first step, as on an input validation error, or after some
\* steps), every call that waits gets to run; and a call made when no call is
\* in its traversal starts its traversal at once.
C36_ReleasedOnEveryOutcome ==
    /\ [](mutexValue = 1 <=> InTraversal = {})
    /\ [](mutexValue = 1 => mutexQueue = <<>>)
    /\ \A c, d \in Callers :
          (Ended(c) /\ callpc[d] = "waiting") ~> (callpc[d] = "running")
    /\ [][\A d \in Callers :
            (callpc[d] = "idle" /\ callpc'[d] # "idle"
               /\ (\E c \in Callers : callpc[c] = "thrown")
               /\ (\A e \in Callers \ {d} : callpc[e] = "idle" \/ Ended(e)))
            => callpc'[d] = "running"]_vars

C36_Witness ==
    /\ callpc = <<"thrown", "thrown", "running">>
    /\ callSteps = <<0, 2, 1>>
    /\ traversalLog = <<2, 2, 3>>
    /\ mutexValue = 0
    /\ mutexQueue = <<>>

SomePassed == \E k \in DOMAIN agent.passed : agent.passed[k]

\* C39: one Agent.invoke makes at most `retries` completion calls and none
\* after a completion whose evaluations passed; it returns, and applies its
\* afterRun state manipulations, only when a completion of the call passed
\* its evaluations; when every attempt failed or none was made it throws.
C39_RetryLoop ==
    /\ Len(agent.results) <= agent.retries
    /\ \A k \in DOMAIN agent.passed : agent.passed[k] => k = Len(agent.results)
    /\ agent.pc = "returned" => SomePassed
    /\ agent.manipulated => SomePassed
    /\ (agent.pc \in {"returned", "thrown"} /\ ~SomePassed) => agent.pc = "thrown"
====
